---- MODULE Spec2Model ----
(***************************************************************************)
(* Model of the counting engine of src/Main.py (class CountingAI): the     *)
(* three counting operations, the operation history and the last-result    *)
(* cache.  Python values are tagged with their type so that [] and {} and  *)
(* None stay distinct; the history list is an object on a heap so that the *)
(* reference get_history hands out can alias it.                           *)
(***************************************************************************)
EXTENDS Integers, Sequences, FiniteSets, TLC

VARIABLES heap, history, last_result, snapshot, snapshot_seen, call, nops

vars == <<heap, history, last_result, snapshot, snapshot_seen, call, nops>>

(* ------------------------------ bounds --------------------------------- *)
MaxOps == 4
MaxInt == 4
MaxStep == 3
MaxTextLen == 4
MaxItems == 4

(* ------------------------- program constants --------------------------- *)
PreviewLen == 20

(* ------------------------------ inputs --------------------------------- *)
EngInts == {1, 2}
EngSteps == {-1, 0, 1}
EngTexts == {<<"A">>, <<"a", " ">>}
EngItems == {<<"a">>, <<"a", "b">>}
RangeInts == (0 - MaxInt)..MaxInt
RangeSteps == (0 - MaxStep)..MaxStep
Chars == {"a", "A", "b", "_", " ", "."}
WordChars == {"a", "A", "b", "_"}
Texts == UNION {[1..k -> Chars] : k \in 0..MaxTextLen}
ItemStrs == {"a", "b", "A"}
ItemLists == UNION {[1..k -> ItemStrs] : k \in 0..MaxItems}
ObjIds == {1, 2}

(* --------------------------- Python values ----------------------------- *)
None == [kind |-> "NoneType", val |-> "None"]
PyList(s) == [kind |-> "list", val |-> s]
PyDict(f) == [kind |-> "dict", val |-> f]
Ref(id) == [kind |-> "ref", val |-> id]

Abs(n) == IF n < 0 THEN 0 - n ELSE n

(* range(start, stop, step) for step # 0 *)
RECURSIVE range(_, _, _)
range(start, stop, step) ==
    IF (step > 0 /\ start >= stop) \/ (step < 0 /\ start <= stop)
    THEN <<>>
    ELSE <<start>> \o range(start + step, stop, step)

(* variants of the stop argument: ascending only, and exclusive end *)
StopFor_ascending(end, step) == end + 1

StopFor_exclusive(end, step) == end

(* the stop argument of line 28: end + (1 if step > 0 else -1) *)
StopFor(end, step) == end + (IF step > 0 THEN 1 ELSE -1)

(* str.lower() on one character of the alphabet *)
LowerChar(c) == CASE c = "A" -> "a" [] OTHER -> c

lower(text) == [i \in 1..Len(text) |-> LowerChar(text[i])]

(* variant: nothing removed *)
replace_nothing(text) == text

(* text.replace(' ', '') *)
replace_spaces(text) == SelectSeq(text, LAMBDA c : c # " ")

(* a Python str built from its characters *)
RECURSIVE Join(_)
Join(cs) == IF cs = <<>> THEN "" ELSE cs[1] \o Join(Tail(cs))

(* text[:n] *)
Take(text, n) == SubSeq(text, 1, IF Len(text) < n THEN Len(text) ELSE n)

(* \w and \b of the pattern r'\b\w+\b'; position p is before character p *)
IsWordChar(c) == c \in WordChars

Boundary(text, p) ==
    LET before == p > 1 /\ IsWordChar(text[p - 1])
        after == p <= Len(text) /\ IsWordChar(text[p])
    IN  before # after

(* end (exclusive) of the match of \b\w+\b attempted at p; p when none *)
MatchEnd(text, p) ==
    LET ends == {e \in (p + 1)..(Len(text) + 1) :
                    /\ \A i \in p..(e - 1) : IsWordChar(text[i])
                    /\ Boundary(text, e)}
    IN  IF Boundary(text, p) /\ ends # {}
        THEN CHOOSE e \in ends : \A f \in ends : f <= e
        ELSE p

(* re.findall(r'\b\w+\b', text), scanning from position p *)
RECURSIVE findall(_, _)
findall(text, p) ==
    IF p > Len(text)
    THEN <<>>
    ELSE LET e == MatchEnd(text, p)
         IN  IF e = p
             THEN findall(text, p + 1)
             ELSE <<Join(SubSeq(text, p, e - 1))>> \o findall(text, e)

(* variant: a repeated key is stored again instead of incremented *)
CounterAdd_store(c, k) ==
    IF k \in DOMAIN c THEN [c EXCEPT ![k] = 1] ELSE c @@ (k :> 1)

(* one step of Counter's tally *)
CounterAdd(c, k) ==
    IF k \in DOMAIN c THEN [c EXCEPT ![k] = @ + 1] ELSE c @@ (k :> 1)

(* dict(Counter(s)) *)
RECURSIVE Counter(_)
Counter(s) ==
    IF s = <<>> THEN <<>>
    ELSE CounterAdd(Counter(SubSeq(s, 1, Len(s) - 1)), s[Len(s)])

(* ------------------------------ the heap ------------------------------- *)
(* list objects reachable from self.history or from the caller's variable *)
Live(h, s) == {h} \cup (IF s = None THEN {} ELSE {s.val})

(* unreachable list objects are reclaimed *)
Collect(hp, h, s) == [id \in ObjIds |-> IF id \in Live(h, s) THEN hp[id] ELSE <<>>]

(* variant: the record is inserted at the front *)
history_insert_front(rec) == [heap EXCEPT ![history] = <<rec>> \o @]

(* list.append on the object self.history refers to *)
history_append(rec) == [heap EXCEPT ![history] = Append(@, rec)]

Returned(op, args, ret) == [op |-> op, args |-> args, ret |-> ret, exc |-> "none"]
Raised(op, args, exc) == [op |-> op, args |-> args, ret |-> None, exc |-> exc]

(* ---------------------------- construction ----------------------------- *)
Init ==
    /\ heap = [id \in ObjIds |-> <<>>]
    /\ history = 1
    /\ last_result = None
    /\ snapshot = None
    /\ snapshot_seen = <<>>
    /\ call = Returned("__init__", <<>>, None)
    /\ nops = 0

(* the engine's log: the list self.history refers to *)
log == heap[history]

(* ----------------------------- operations ------------------------------ *)
(* variant: the start = end shortcut is taken before the step check *)
basic_count_shortcut_first(start, end, step) ==
    LET args == <<start, end, step>> IN
    /\ nops' = nops + 1
    /\ UNCHANGED <<history, snapshot, snapshot_seen>>
    /\ IF start = end
       THEN /\ call' = Returned("basic_count", args, PyList(<<start>>))
            /\ UNCHANGED <<heap, last_result>>
       ELSE IF step = 0
       THEN /\ call' = Raised("basic_count", args, "ValueError")
            /\ UNCHANGED <<heap, last_result>>
       ELSE IF (start < end /\ step < 0) \/ (start > end /\ step > 0)
       THEN /\ call' = Returned("basic_count", args, PyList(<<>>))
            /\ UNCHANGED <<heap, last_result>>
       ELSE LET result == PyList(range(start, StopFor(end, step), step))
                desc == "from " \o ToString(start) \o " to " \o ToString(end)
                            \o " by " \o ToString(step)
            IN  /\ last_result' = result
                /\ heap' = history_append(<<"Basic Count", desc, result>>)
                /\ call' = Returned("basic_count", args, result)

basic_count(start, end, step) ==
    LET args == <<start, end, step>> IN
    /\ nops' = nops + 1
    /\ UNCHANGED <<history, snapshot, snapshot_seen>>
    /\ IF step = 0
       THEN /\ call' = Raised("basic_count", args, "ValueError")
            /\ UNCHANGED <<heap, last_result>>
       ELSE IF start = end
       THEN /\ call' = Returned("basic_count", args, PyList(<<start>>))
            /\ UNCHANGED <<heap, last_result>>
       ELSE IF (start < end /\ step < 0) \/ (start > end /\ step > 0)
       THEN /\ call' = Returned("basic_count", args, PyList(<<>>))
            /\ UNCHANGED <<heap, last_result>>
       ELSE LET result == PyList(range(start, StopFor(end, step), step))
                desc == "from " \o ToString(start) \o " to " \o ToString(end)
                            \o " by " \o ToString(step)
            IN  /\ last_result' = result
                /\ heap' = history_append(<<"Basic Count", desc, result>>)
                /\ call' = Returned("basic_count", args, result)

count_occurrences(text, case_sensitive) ==
    LET text1 == IF ~case_sensitive THEN lower(text) ELSE text
        words == findall(text1, 1)
        all_chars == replace_spaces(text1)
        result == PyDict([characters |-> PyDict(Counter(all_chars)),
                          words |-> PyDict(Counter(words))])
        desc == "Text: '" \o Join(Take(text1, PreviewLen)) \o "...'"
    IN  /\ nops' = nops + 1
        /\ last_result' = result
        /\ heap' = history_append(<<"Count Occurrences", desc, result>>)
        /\ call' = Returned("count_occurrences", <<text, case_sensitive>>, result)
        /\ UNCHANGED <<history, snapshot, snapshot_seen>>

custom_count(items) ==
    LET result == PyDict(Counter(items))
        desc == ToString(Len(items)) \o " items"
    IN  /\ nops' = nops + 1
        /\ last_result' = result
        /\ heap' = history_append(<<"Custom Count", desc, result>>)
        /\ call' = Returned("custom_count", <<items>>, result)
        /\ UNCHANGED <<history, snapshot, snapshot_seen>>

(* returns self.history itself; the caller keeps the reference *)
get_history ==
    /\ nops' = nops + 1
    /\ call' = Returned("get_history", <<>>, Ref(history))
    /\ snapshot' = Ref(history)
    /\ snapshot_seen' = heap[history]
    /\ heap' = Collect(heap, history, Ref(history))
    /\ UNCHANGED <<history, last_result>>

(* variant: only the last result is reset *)
clear_history_result_only ==
    /\ nops' = nops + 1
    /\ last_result' = None
    /\ call' = Returned("clear_history", <<>>, None)
    /\ UNCHANGED <<heap, history, snapshot, snapshot_seen>>

(* self.history = [] binds a new list object; self.last_result = None *)
clear_history ==
    LET fresh == CHOOSE id \in ObjIds : Ref(id) # snapshot
    IN  /\ nops' = nops + 1
        /\ history' = fresh
        /\ heap' = Collect([heap EXCEPT ![fresh] = <<>>], fresh, snapshot)
        /\ last_result' = None
        /\ call' = Returned("clear_history", <<>>, None)
        /\ UNCHANGED <<snapshot, snapshot_seen>>

(* ---------------------------- specifications --------------------------- *)
CallBasic ==
    /\ nops < MaxOps
    /\ \E start \in EngInts, end \in EngInts, step \in EngSteps :
           basic_count(start, end, step)

CallOccurrences ==
    /\ nops < MaxOps
    /\ \E text \in EngTexts, cs \in BOOLEAN : count_occurrences(text, cs)

CallCustom ==
    /\ nops < MaxOps
    /\ \E items \in EngItems : custom_count(items)

CallGetHistory == nops < MaxOps /\ get_history

CallClearHistory == nops < MaxOps /\ clear_history

Next ==
    \/ CallBasic
    \/ CallOccurrences
    \/ CallCustom
    \/ CallGetHistory
    \/ CallClearHistory

Spec == Init /\ [][Next]_vars

(* one call of basic_count on a new engine, over a wider range of inputs *)
NextRange ==
    /\ nops = 0
    /\ \E start \in RangeInts, end \in RangeInts, step \in RangeSteps :
           basic_count(start, end, step)

SpecRange == Init /\ [][NextRange]_vars

(* one call of count_occurrences on a new engine, over all short texts *)
NextText ==
    /\ nops = 0
    /\ \E text \in Texts, cs \in BOOLEAN : count_occurrences(text, cs)

SpecText == Init /\ [][NextText]_vars

(* one call of custom_count on a new engine, over all short item lists *)
NextItems ==
    /\ nops = 0
    /\ \E items \in ItemLists : custom_count(items)

SpecItems == Init /\ [][NextItems]_vars

(* ------------------------------ properties ----------------------------- *)
CountingOps == {"basic_count", "count_occurrences", "custom_count"}

ReturnedOK(c) == c.op \in CountingOps /\ c.exc = "none"

(* C1: every counting operation that returns without failing grows the log *)
(* by exactly one record whose result is the returned value; a record of   *)
(* basic_count is labelled "Basic Count".                                  *)
C1_OneRecordPerCall ==
    [][ReturnedOK(call') =>
          /\ Len(log') = Len(log) + 1
          /\ SubSeq(log', 1, Len(log)) = log
          /\ log'[Len(log')][3] = call'.ret
          /\ (call'.op = "basic_count" => log'[Len(log')][1] = "Basic Count")]_vars

(* C2: for a nonzero step basic_count returns [start] when start = end, the *)
(* empty list on a direction mismatch, and otherwise exactly the values     *)
(* start, start+step, ... between start and end inclusive, in that order.   *)
C2_RangeValues ==
    (call.op = "basic_count" /\ call.args[3] # 0) =>
        LET start == call.args[1]
            end == call.args[2]
            step == call.args[3]
            ret == call.ret.val
            Between(v) == (start <= v /\ v <= end) \/ (end <= v /\ v <= start)
        IN  /\ call.exc = "none"
            /\ call.ret.kind = "list"
            /\ IF start = end THEN ret = <<start>>
               ELSE IF (start < end /\ step < 0) \/ (start > end /\ step > 0)
               THEN ret = <<>>
               ELSE /\ \A i \in 1..Len(ret) :
                          ret[i] = start + (i - 1) * step /\ Between(ret[i])
                    /\ ~Between(start + Len(ret) * step)

C2_Witness ==
    /\ call.op = "basic_count"
    /\ call.args = <<4, -3, -3>>
    /\ call.ret = PyList(<<4, 1, -2>>)

DirectionMatches(c) ==
    /\ c.op = "basic_count"
    /\ c.args[1] # c.args[2]
    /\ c.args[3] # 0
    /\ (c.args[1] < c.args[2]) = (c.args[3] > 0)

(* C3 as stated: with start # end and a step in the direction of travel the *)
(* returned sequence is non-empty and its last element is end.              *)
C3_LastIsEnd ==
    DirectionMatches(call) =>
        /\ call.ret.val # <<>>
        /\ call.ret.val[Len(call.ret.val)] = call.args[2]

(* C3 amended: with start # end and a step in the direction of travel the   *)
(* returned sequence is non-empty, begins with start, and its last element  *)
(* lies between start and end less than |step| short of end; it is end      *)
(* exactly when end - start is a multiple of step.                          *)
C3_LastWithinStep ==
    DirectionMatches(call) =>
        LET start == call.args[1]
            end == call.args[2]
            step == call.args[3]
            ret == call.ret.val
        IN  /\ ret # <<>>
            /\ ret[1] = start
            /\ LET last == ret[Len(ret)]
               IN  /\ (start <= last /\ last <= end) \/ (end <= last /\ last <= start)
                   /\ Abs(end - last) < Abs(step)
                   /\ (last = end) <=> ((end - start) % Abs(step) = 0)

C3_Witness ==
    /\ call.op = "basic_count"
    /\ call.args = <<-4, 4, 3>>
    /\ call.ret = PyList(<<-4, -1, 2>>)

(* C4: basic_count with step 0 raises ValueError for all start and end,     *)
(* start = end included, and leaves the log and the last result as they     *)
(* were before the call.                                                    *)
C4_ZeroStepFails ==
    [][(call'.op = "basic_count" /\ call'.args[3] = 0) =>
          /\ call'.exc = "ValueError"
          /\ log' = log
          /\ heap' = heap
          /\ history' = history
          /\ last_result' = last_result]_vars

C4_Witness ==
    /\ call.op = "basic_count"
    /\ call.exc = "ValueError"
    /\ call.args[1] = call.args[2]
    /\ Len(log) >= 2
    /\ last_result # None

(* C5: after a counting operation that returns without failing the last     *)
(* result is the returned value, and no operation other than those and      *)
(* clear_history changes the last result.                                   *)
C5_LastResultIsReturned ==
    [][/\ ReturnedOK(call') => last_result' = call'.ret
       /\ (~ReturnedOK(call') /\ call'.op # "clear_history") =>
              last_result' = last_result]_vars

(* C6: the log is append-only: every operation other than clear_history     *)
(* leaves the old log as a prefix of the new one, adding at most one record *)
(* at the end.                                                              *)
C6_AppendOnly ==
    [][call'.op # "clear_history" =>
          /\ Len(log) <= Len(log')
          /\ Len(log') <= Len(log) + 1
          /\ SubSeq(log', 1, Len(log)) = log]_vars

C6_Witness ==
    /\ Len(log) = 3
    /\ log[1][1] = "Custom Count"
    /\ log[2][1] = "Basic Count"
    /\ log[3][1] = "Count Occurrences"

(* C7: clear_history leaves the log empty and the last result None; a       *)
(* get_history right after it returns an empty list; and after it the log   *)
(* holds nothing but the records of later calls (a step adds to the log at  *)
(* most the record of the call just made).                                  *)
C7_ClearEmpties ==
    [][/\ call'.op = "clear_history" => (log' = <<>> /\ last_result' = None)
       /\ (call.op = "clear_history" /\ call'.op = "get_history") =>
              (call'.ret.kind = "ref" /\ heap'[call'.ret.val] = <<>>)
       /\ call.op = "clear_history" =>
              \/ log' = <<>>
              \/ (Len(log') = 1 /\ ReturnedOK(call') /\ log'[1][3] = call'.ret)
       /\ (call'.op # "clear_history" /\ log' # log) =>
              (ReturnedOK(call') /\ log' = Append(log, log'[Len(log')])
                 /\ log'[Len(log')][3] = call'.ret)]_vars

C7_Witness ==
    /\ call.op = "clear_history"
    /\ snapshot # None
    /\ Len(snapshot_seen) >= 2
    /\ log = <<>>
    /\ last_result = None

(* C8: a sequence obtained from get_history keeps the contents it had when  *)
(* it was returned, whatever the engine does afterwards.                    *)
C8_SnapshotFrozen ==
    snapshot # None => heap[snapshot.val] = snapshot_seen

RECURSIVE SumOver(_, _)
SumOver(d, keys) ==
    IF keys = {} THEN 0
    ELSE LET k == CHOOSE x \in keys : TRUE IN d[k] + SumOver(d, keys \ {k})

(* C9: custom_count returns a mapping whose keys are exactly the distinct   *)
(* strings of items, each mapped to the number of positions holding it, so  *)
(* that the values sum to the length of items.                              *)
C9_CustomCount ==
    call.op = "custom_count" =>
        LET items == call.args[1]
            d == call.ret.val
        IN  /\ call.exc = "none"
            /\ call.ret.kind = "dict"
            /\ DOMAIN d = {items[i] : i \in 1..Len(items)}
            /\ \A k \in DOMAIN d :
                   d[k] = Cardinality({i \in 1..Len(items) : items[i] = k})
            /\ SumOver(d, DOMAIN d) = Len(items)

C9_Witness ==
    /\ call.op = "custom_count"
    /\ call.args = <<(<<"a", "b", "a">>)>>
    /\ call.ret = PyDict(("a" :> 2) @@ ("b" :> 1))

(* maximal runs of word characters of t, as <<first, last>> positions *)
Runs(t) ==
    {r \in (1..Len(t)) \X (1..Len(t)) :
        /\ r[1] <= r[2]
        /\ \A i \in r[1]..r[2] : t[i] \in WordChars
        /\ (r[1] = 1 \/ t[r[1] - 1] \notin WordChars)
        /\ (r[2] = Len(t) \/ t[r[2] + 1] \notin WordChars)}

RunText(t, r) == Join(SubSeq(t, r[1], r[2]))

(* C10: count_occurrences analyses the text lowercased unless case_sensitive; *)
(* the keys of characters are exactly the distinct non-space characters of    *)
(* the analysed text, each mapped to its number of occurrences, and words     *)
(* counts each maximal run of word characters.                                *)
C10_TextFrequencies ==
    call.op = "count_occurrences" =>
        LET text == call.args[1]
            t == IF call.args[2] THEN text
                 ELSE [i \in 1..Len(text) |-> IF text[i] = "A" THEN "a" ELSE text[i]]
            chars == call.ret.val.characters.val
            words == call.ret.val.words.val
        IN  /\ call.exc = "none"
            /\ call.ret.kind = "dict"
            /\ DOMAIN chars = {t[i] : i \in 1..Len(t)} \ {" "}
            /\ \A c \in DOMAIN chars :
                   chars[c] = Cardinality({i \in 1..Len(t) : t[i] = c})
            /\ DOMAIN words = {RunText(t, r) : r \in Runs(t)}
            /\ \A w \in DOMAIN words :
                   words[w] = Cardinality({r \in Runs(t) : RunText(t, r) = w})

C10_Witness ==
    /\ call.op = "count_occurrences"
    /\ call.args = <<(<<"A", ".", " ", "a">>), FALSE>>
    /\ call.ret = PyDict([characters |-> PyDict(("a" :> 2) @@ ("." :> 1)),
                          words |-> PyDict("a" :> 2)])

TypeOK ==
    /\ history \in ObjIds
    /\ nops \in 0..MaxOps
    /\ snapshot = None \/ snapshot.val \in ObjIds
====
